---- MODULE Spec2Model ----
(***************************************************************************)
(* Model of the circuit canvas (src/components/CircuitCanvas.tsx): the     *)
(* view-transform state, the event handlers that change it, the node       *)
(* resolver and the render pass.                                           *)
(*                                                                         *)
(* Numbers.  The source computes in IEEE doubles; the model computes in    *)
(* exact fixed point:                                                      *)
(*   scale              in units of 1/ScaleDen   (20 means zoom 1.0)       *)
(*   globalScaleFactor  as in the source (1000 .. 15000), a multiple of    *)
(*                      GsfUnit                                            *)
(*   canvasSize         in whole pixels                                    *)
(*   pan, pointer       in whole pixels                                    *)
(*   screen coordinates as numerators over ScreenDen (pixels * ScreenDen)  *)
(***************************************************************************)
EXTENDS Integers, Sequences, FiniteSets, TLC

\* ------------------------------------------------------------ bounds
\* World coordinates x, z of a device lie in -MaxCoord .. MaxCoord.
MaxCoord == 2
\* Pointer (clientX, clientY) coordinates lie in 0 .. MaxPointer.
MaxPointer == 1
\* Pan components are kept within -MaxPan .. MaxPan by the guard of a move.
MaxPan == 1
MaxUploads == 2           \* uploads in flight at a time

\* ------------------------------------------------- program constants
ScaleDen == 20            \* 1 / zoomFactor: scale is counted in steps of 0.05
zoomFactor == 1           \* 0.05, in units of 1/ScaleDen
MinScale == 2             \* 0.1
MaxScale == 200           \* 10
InitScale == 20           \* useState(1)
SliderMin == 1000
SliderMax == 15000
SliderStep == 100
InitialScaleFactor == 8000
InitWidth == 800
InitHeight == 600
NominalExtent == 1000     \* canvas.width / 1000
MarginNum == 9            \* * 0.9
MarginDen == 10
JunctionSize == 20
DeviceSize == 80

\* globalScaleFactor is a multiple of the slider step in every state, so it is
\* counted in that unit inside the products (this keeps them within 32 bits).
GsfUnit == SliderStep
\* Denominator of the screen coordinates: a product
\*   position * (globalScaleFactor / GsfUnit) * (min(w, h) * MarginNum) * scale * scaleFactor
\* is the screen offset in pixels times ScreenDen.
ScreenDen == (NominalExtent * MarginDen * ScaleDen) \div GsfUnit

Min(a, b) == IF a < b THEN a ELSE b
Max(a, b) == IF a > b THEN a ELSE b

\* ------------------------------------------------------------ strings
\* A deviceType is a sequence of character codes, so that toLowerCase is
\* computed and not assumed.
LowerChar(c) == IF c >= 65 /\ c <= 90 THEN c + 32 ELSE c
toLowerCase(s) == [i \in 1..Len(s) |-> LowerChar(s[i])]

Str_junction == <<106, 117, 110, 99, 116, 105, 111, 110>>
Str_Junction == <<74, 117, 110, 99, 116, 105, 111, 110>>
Str_JUNCTION == <<74, 85, 78, 67, 84, 73, 79, 78>>
Str_resistor == <<114, 101, 115, 105, 115, 116, 111, 114>>
Str_Resistor == <<82, 101, 115, 105, 115, 116, 111, 114>>
Str_ground == <<103, 114, 111, 117, 110, 100>>
Str_widget == <<119, 105, 100, 103, 101, 116>>
Str_capacitor == <<99, 97, 112, 97, 99, 105, 116, 111, 114>>
Str_inductor == <<105, 110, 100, 117, 99, 116, 111, 114>>
Str_voltage_source == <<118, 111, 108, 116, 97, 103, 101, 95, 115, 111, 117, 114, 99, 101>>
Str_current_source == <<99, 117, 114, 114, 101, 110, 116, 95, 115, 111, 117, 114, 99, 101>>
Str_default == <<100, 101, 102, 97, 117, 108, 116>>

\* device.deviceType.toLowerCase() === "junction"
IsJunctionNoFold(device) == device.deviceType = Str_junction
IsJunction(device) == toLowerCase(device.deviceType) = Str_junction

\* ----------------------------------------------------------- geometry
Undefined == "<undefined>"

Point(px, py) == [x |-> px, y |-> py]

\* const baseScale = Math.min(canvas.width / 1000, canvas.height / 1000) * 0.9
\* as a numerator over NominalExtent * MarginDen.
BaseScaleWidthOnly(size) == size.width * MarginNum
BaseScale(size) == Min(size.width, size.height) * MarginNum

\* const scaleFactor = device.position["scaleFactor"] || 1
ScaleFactorNoDefault(position) ==
    IF "scaleFactor" \in DOMAIN position THEN position.scaleFactor ELSE 1
ScaleFactorOf(position) ==
    IF "scaleFactor" \in DOMAIN position /\ position.scaleFactor # 0
    THEN position.scaleFactor
    ELSE 1

\* The switch (rotation) of drawDevice: the screen point of a device, as
\* numerators over ScreenDen.  v is the view state the closure captured.
DeviceScreenSwapped(device, baseScale, v) ==
    LET scaleFactor == ScaleFactorOf(device.position)
        scaledX == device.position.x * (v.globalScaleFactor \div GsfUnit)
        scaledZ == device.position.z * (v.globalScaleFactor \div GsfUnit)
        panX == v.pan.x * ScreenDen
        panY == v.pan.y * ScreenDen
    IN  CASE v.rotation = 90 ->
               Point(scaledZ * baseScale * v.scale * scaleFactor + panX,
                     (-scaledX) * baseScale * v.scale * scaleFactor + panY)
          [] v.rotation = 180 ->
               Point((-scaledX) * baseScale * v.scale * scaleFactor + panX,
                     (-scaledZ) * baseScale * v.scale * scaleFactor + panY)
          [] v.rotation = 270 ->
               Point((-scaledZ) * baseScale * v.scale * scaleFactor + panX,
                     scaledX * baseScale * v.scale * scaleFactor + panY)
          [] OTHER ->
               Point(scaledX * baseScale * v.scale * scaleFactor + panX,
                     scaledZ * baseScale * v.scale * scaleFactor + panY)
\* The four formulas of the switch with the case for 180 left out, and with
\* the zoom left out of the case for 270.
DeviceScreenNo180(device, baseScale, v) ==
    DeviceScreenSwapped(device, baseScale,
        [v EXCEPT !.rotation = CASE v.rotation = 90 -> 270
                                 [] v.rotation = 270 -> 90
                                 [] OTHER -> 0])
DeviceScreenZoomDropped(device, baseScale, v) ==
    DeviceScreenSwapped(device, baseScale,
        [v EXCEPT !.rotation = CASE v.rotation = 90 -> 270
                                 [] v.rotation = 270 -> 90
                                 [] OTHER -> v.rotation,
                  !.scale = IF v.rotation = 270 THEN ScaleDen ELSE v.scale])
DeviceScreen(device, baseScale, v) ==
    LET scaleFactor == ScaleFactorOf(device.position)
        scaledX == device.position.x * (v.globalScaleFactor \div GsfUnit)
        scaledZ == device.position.z * (v.globalScaleFactor \div GsfUnit)
        panX == v.pan.x * ScreenDen
        panY == v.pan.y * ScreenDen
    IN  CASE v.rotation = 0 ->
               Point(scaledX * baseScale * v.scale * scaleFactor + panX,
                     scaledZ * baseScale * v.scale * scaleFactor + panY)
          [] v.rotation = 90 ->
               Point((-scaledZ) * baseScale * v.scale * scaleFactor + panX,
                     scaledX * baseScale * v.scale * scaleFactor + panY)
          [] v.rotation = 180 ->
               Point((-scaledX) * baseScale * v.scale * scaleFactor + panX,
                     (-scaledZ) * baseScale * v.scale * scaleFactor + panY)
          [] v.rotation = 270 ->
               Point(scaledZ * baseScale * v.scale * scaleFactor + panX,
                     (-scaledX) * baseScale * v.scale * scaleFactor + panY)
          [] OTHER ->
               Point(scaledX * baseScale * v.scale * scaleFactor + panX,
                     scaledZ * baseScale * v.scale * scaleFactor + panY)

\* The switch (rotation) of drawWire, for one endpoint position: no local
\* scale factor enters the product.
WireScreenWithLocalScale(pos, baseScale, v) ==
    DeviceScreen([position |-> pos], baseScale, v)
WireScreen(pos, baseScale, v) ==
    LET scaledX == pos.x * (v.globalScaleFactor \div GsfUnit)
        scaledZ == pos.z * (v.globalScaleFactor \div GsfUnit)
        panX == v.pan.x * ScreenDen
        panY == v.pan.y * ScreenDen
    IN  CASE v.rotation = 0 ->
               Point(scaledX * baseScale * v.scale + panX,
                     scaledZ * baseScale * v.scale + panY)
          [] v.rotation = 90 ->
               Point((-scaledZ) * baseScale * v.scale + panX,
                     scaledX * baseScale * v.scale + panY)
          [] v.rotation = 180 ->
               Point((-scaledX) * baseScale * v.scale + panX,
                     (-scaledZ) * baseScale * v.scale + panY)
          [] v.rotation = 270 ->
               Point(scaledZ * baseScale * v.scale + panX,
                     (-scaledX) * baseScale * v.scale + panY)
          [] OTHER ->
               Point(scaledX * baseScale * v.scale + panX,
                     scaledZ * baseScale * v.scale + panY)

\* ------------------------------------------------------ node resolver
\* device.position of a device object that has no position field: undefined.
NoPosition == [undefined |-> TRUE]
IsUndefined(value) == "undefined" \in DOMAIN value
PositionOf(device) ==
    IF "position" \in DOMAIN device THEN device.position ELSE NoPosition

\* An assignment that keeps the value a key already has.
PutIfAbsent(np, nodeId, position) ==
    [n \in DOMAIN np \cup {nodeId} |->
        IF n \in DOMAIN np THEN np[n] ELSE position]
\* nodePositions[nodeId] = position
Put(np, nodeId, position) ==
    [n \in DOMAIN np \cup {nodeId} |-> IF n = nodeId THEN position ELSE np[n]]

\* device.nodes.forEach((nodeId) => { if (junction) nodePositions[nodeId] = ... })
RECURSIVE RegisterNodesAnyType(_, _, _)
RegisterNodesAnyType(np, device, i) ==
    IF i > Len(device.nodes) THEN np
    ELSE RegisterNodesAnyType(Put(np, device.nodes[i], device.position), device, i + 1)
RECURSIVE RegisterNodes(_, _, _)
RegisterNodes(np, device, i) ==
    IF i > Len(device.nodes) THEN np
    ELSE RegisterNodes(IF IsJunction(device)
                       THEN Put(np, device.nodes[i], PositionOf(device))
                       ELSE np,
                       device, i + 1)

\* devices.forEach((device) => ...), from device number i on
RECURSIVE ForEachDevice(_, _, _)
ForEachDevice(np, devices, i) ==
    IF i > Len(devices) THEN np
    ELSE ForEachDevice(RegisterNodes(np, devices[i], 1), devices, i + 1)

calculateNodePositions(devices) == ForEachDevice(<<>>, devices, 1)

\* ------------------------------------------------------------- render
\* circuitData === null
Null == [null |-> TRUE]
IsNull(cd) == "null" \in DOMAIN cd

\* const [startNodeId, endNodeId] = wire.nodes
NodeIdAt(wire, i) == IF i <= Len(wire.nodes) THEN wire.nodes[i] ELSE Undefined

\* d.nodes.includes(nodeId)
Includes(nodes, nodeId) == \E i \in 1..Len(nodes) : nodes[i] = nodeId

\* devices.find((d) => d.nodes.includes(nodeId)): the index of the first such
\* device, 0 for undefined.
FindLast(devices, nodeId) ==
    LET hits == {i \in 1..Len(devices) : Includes(devices[i].nodes, nodeId)}
    IN  IF hits = {} THEN 0 ELSE CHOOSE i \in hits : \A j \in hits : j <= i
Find(devices, nodeId) ==
    LET hits == {i \in 1..Len(devices) : Includes(devices[i].nodes, nodeId)}
    IN  IF hits = {} THEN 0 ELSE CHOOSE i \in hits : \A j \in hits : i <= j

\* nodePositions[nodeId] || device.position
ResolveDeviceFirst(nodePositions, nodeId, device) == device.position
Resolve(nodePositions, nodeId, device) ==
    IF nodeId \in DOMAIN nodePositions /\ ~IsUndefined(nodePositions[nodeId])
    THEN nodePositions[nodeId]
    ELSE PositionOf(device)

Completed(ops) == [ops |-> ops, fault |-> FALSE]
Thrown(ops) == [ops |-> ops, fault |-> TRUE]

\* The segment drawWire strokes between two resolved positions.
Stroke(wire, startPos, endPos, baseScale, v) ==
    [op |-> "stroke", wireId |-> wire.wireId,
     startPos |-> startPos, endPos |-> endPos,
     from |-> WireScreen(startPos, baseScale, v),
     to |-> WireScreen(endPos, baseScale, v),
     lineWidth |-> 2 * v.scale]

\* drawWire without its early return: reading .position of undefined throws.
DrawWireNoGuard(wire, devices, nodePositions, baseScale, v) ==
    LET startNodeId == NodeIdAt(wire, 1)
        endNodeId == NodeIdAt(wire, 2)
        startDevice == Find(devices, startNodeId)
        endDevice == Find(devices, endNodeId)
    IN  IF startDevice = 0 \/ endDevice = 0 THEN Thrown(<<>>)
        ELSE Completed(<<Stroke(wire,
                 Resolve(nodePositions, startNodeId, devices[startDevice]),
                 Resolve(nodePositions, endNodeId, devices[endDevice]),
                 baseScale, v)>>)
\* Destructuring wire.nodes of a wire without nodes throws, and so does
\* startPos.x when neither the mapping nor the device gives a position.
DrawWire(wire, devices, nodePositions, baseScale, v) ==
    IF "nodes" \notin DOMAIN wire THEN Thrown(<<>>)
    ELSE
    LET startNodeId == NodeIdAt(wire, 1)
        endNodeId == NodeIdAt(wire, 2)
        startDevice == Find(devices, startNodeId)
        endDevice == Find(devices, endNodeId)
    IN  IF startDevice = 0 \/ endDevice = 0 THEN Completed(<<>>)
        ELSE LET startPos == Resolve(nodePositions, startNodeId,
                                     devices[startDevice])
                 endPos == Resolve(nodePositions, endNodeId,
                                   devices[endDevice])
             IN  IF IsUndefined(startPos) \/ IsUndefined(endPos)
                 THEN Thrown(<<>>)
                 ELSE Completed(<<Stroke(wire, startPos, endPos,
                                         baseScale, v)>>)

\* deviceColors and componentEmojis, keyed by type name; a glyph is written
\* as its code point.
deviceColors ==
    (Str_resistor :> [fill |-> "#0a84ff", stroke |-> "#5ac8fa"]) @@
    (Str_capacitor :> [fill |-> "#5ac8fa", stroke |-> "#0a84ff"]) @@
    (Str_inductor :> [fill |-> "#cc7ef5", stroke |-> "#5ac8fa"]) @@
    (Str_voltage_source :> [fill |-> "#ff9f0a", stroke |-> "#cc7ef5"]) @@
    (Str_current_source :> [fill |-> "#ff9f0a", stroke |-> "#0a84ff"]) @@
    (Str_ground :> [fill |-> "#8e8e93", stroke |-> "#ffffff"]) @@
    (Str_junction :> [fill |-> "#d1d1d6", stroke |-> "#ffffff"]) @@
    (Str_default :> [fill |-> "#ffffff", stroke |-> "#d1d1d6"])

componentEmojis ==
    (Str_resistor :> "U+26A1") @@
    (Str_capacitor :> "U+1F50B") @@
    (Str_inductor :> "U+1F300") @@
    (Str_voltage_source :> "U+26A1") @@
    (Str_current_source :> "U+21AF") @@
    (Str_ground :> "U+23DA") @@
    (Str_junction :> "U+25C9") @@
    (Str_default :> "U+26A1")

\* table[device.deviceType.toLowerCase()] || table.default
LookupNoFold(table, device) ==
    IF device.deviceType \in DOMAIN table THEN table[device.deviceType]
    ELSE table[Str_default]
Lookup(table, device) ==
    LET key == toLowerCase(device.deviceType)
    IN  IF key \in DOMAIN table THEN table[key] ELSE table[Str_default]

\* drawDevice: the glyph of one device at its screen point: a box with the
\* label `${emoji} ${device.deviceType}`, or a junction's circle without one.
\* The drawing context's transform: the screen point of its origin, its
\* rotation in degrees, and the stack of transforms pushed by save().
IdentityCtx == [origin |-> Point(0, 0), angle |-> 0, saved |-> <<>>]
Transform(ctx) == [origin |-> ctx.origin, angle |-> ctx.angle]
Save(ctx) == [ctx EXCEPT !.saved = Append(@, Transform(ctx))]
\* ctx.translate on an unrotated context, which is where drawDevice calls it.
Translate(ctx, p) ==
    [ctx EXCEPT !.origin = Point(@.x + p.x, @.y + p.y)]
Rotate(ctx, degrees) == [ctx EXCEPT !.angle = @ + degrees]
RestoreNothing(ctx) == ctx
Restore(ctx) ==
    IF ctx.saved = <<>> THEN ctx
    ELSE [origin |-> ctx.saved[Len(ctx.saved)].origin,
          angle |-> ctx.saved[Len(ctx.saved)].angle,
          saved |-> SubSeq(ctx.saved, 1, Len(ctx.saved) - 1)]
\* ctx.rotate(-(device.rotation * Math.PI) / 180) before the text
TextRotationKept(deviceRotation) == 0
TextRotation(deviceRotation) == 0 - deviceRotation

\* device.position["scaleFactor"] of a device without position throws before
\* anything is drawn.
DrawDevice(device, nodePositions, baseScale, v) ==
    IF "position" \notin DOMAIN device THEN Thrown(<<>>)
    ELSE
    LET colors == Lookup(deviceColors, device)
        boxCtx == Rotate(Translate(Save(IdentityCtx),
                                   DeviceScreen(device, baseScale, v)),
                         device.rotation)
        textCtx == Rotate(boxCtx, TextRotation(device.rotation))
        endCtx == IF IsJunction(device) THEN boxCtx ELSE textCtx
    IN  Completed(<<[op |-> "device", deviceId |-> device.deviceId,
                     glyphCtx |-> Transform(boxCtx),
                     textCtx |-> IF IsJunction(device) THEN <<>>
                                 ELSE <<Transform(textCtx)>>,
                     ctxAfter |-> Restore(endCtx),
                     at |-> DeviceScreen(device, baseScale, v),
                     shape |-> IF IsJunction(device) THEN "circle" ELSE "box",
                     size |-> (IF IsJunction(device) THEN JunctionSize
                               ELSE DeviceSize) * v.scale,
                     fill |-> colors.fill,
                     stroke |-> colors.stroke,
                     label |-> IF IsJunction(device) THEN <<>>
                               ELSE <<[emoji |-> Lookup(componentEmojis, device),
                                       name |-> device.deviceType]>>]>>)

\* circuitData.wires.forEach(...), from wire number i on; an exception ends
\* the pass.
RECURSIVE ForEachWire(_, _, _, _, _, _)
ForEachWire(acc, cd, i, nodePositions, baseScale, v) ==
    IF acc.fault \/ i > Len(cd.wires) THEN acc
    ELSE LET r == DrawWire(cd.wires[i], cd.devices, nodePositions, baseScale, v)
         IN  ForEachWire([ops |-> acc.ops \o r.ops, fault |-> r.fault],
                         cd, i + 1, nodePositions, baseScale, v)

\* circuitData.devices.forEach(...), from device number i on.
RECURSIVE ForEachDrawDevice(_, _, _, _, _, _)
ForEachDrawDevice(acc, cd, i, nodePositions, baseScale, v) ==
    IF acc.fault \/ i > Len(cd.devices) THEN acc
    ELSE LET r == DrawDevice(cd.devices[i], nodePositions, baseScale, v)
         IN  ForEachDrawDevice([ops |-> acc.ops \o r.ops, fault |-> r.fault],
                               cd, i + 1, nodePositions, baseScale, v)

ClearRect(size) == [op |-> "clearRect", width |-> size.width, height |-> size.height]
Checker == [op |-> "checker"]

\* draw: one render pass, as the list of drawing operations it issues, with
\* the node mapping it computed on the way.
NoPass == [ops |-> <<>>, fault |-> FALSE, nodePositions |-> <<>>]
Pass(r, nodePositions) ==
    [ops |-> r.ops, fault |-> r.fault, nodePositions |-> nodePositions]

DrawDevicesFirst(cd, size, v) ==
    IF IsNull(cd) THEN NoPass
    ELSE LET baseScale == BaseScale(size)
             nodePositions == calculateNodePositions(cd.devices)
             devs == ForEachDrawDevice(Completed(<<ClearRect(size), Checker>>),
                                       cd, 1, nodePositions, baseScale, v)
         IN  Pass(ForEachWire(devs, cd, 1, nodePositions, baseScale, v),
                  nodePositions)

\* A graph object without a devices (wires) list: calling forEach on
\* undefined throws, after the clear and the checkerboard; so does
\* device.nodes.forEach in calculateNodePositions for a device without nodes.
Draw(cd, size, v) ==
    IF IsNull(cd) THEN NoPass
    ELSE IF "devices" \notin DOMAIN cd
    THEN Pass(Thrown(<<ClearRect(size), Checker>>), <<>>)
    ELSE IF \E i \in 1..Len(cd.devices) : "nodes" \notin DOMAIN cd.devices[i]
    THEN Pass(Thrown(<<ClearRect(size), Checker>>), <<>>)
    ELSE IF "wires" \notin DOMAIN cd
    THEN Pass(Thrown(<<ClearRect(size), Checker>>),
              calculateNodePositions(cd.devices))
    ELSE LET baseScale == BaseScale(size)
             nodePositions == calculateNodePositions(cd.devices)
             wires == ForEachWire(Completed(<<ClearRect(size), Checker>>),
                                  cd, 1, nodePositions, baseScale, v)
         IN  Pass(ForEachDrawDevice(wires, cd, 1, nodePositions, baseScale, v),
                  nodePositions)

\* const canvas = canvasRef.current; const ctx = canvas?.getContext("2d");
\* if (!canvas || !ctx || !circuitData) return;
\* ref is "none" (no element), "no2d" (getContext gives null) or "ok".
DrawOnCanvasUnchecked(ref, cd, size, v) ==
    IF ref # "ok" THEN Pass(Thrown(<<>>), <<>>) ELSE Draw(cd, size, v)
DrawOnCanvas(ref, cd, size, v) ==
    IF ref = "none" \/ ref = "no2d" THEN NoPass ELSE Draw(cd, size, v)

\* -------------------------------------------------------------- inputs
NoNodes == <<>>

Position(px, pz) == [x |-> px, z |-> pz]
PositionSF(px, pz, sf) == [x |-> px, z |-> pz, scaleFactor |-> sf]

Device(id, type, position, rot, nodes) ==
    [deviceId |-> id, deviceType |-> type, position |-> position,
     rotation |-> rot, nodes |-> nodes]
Wire(id, nodes) == [wireId |-> id, nodes |-> nodes]
Graph(devices, wires) == [devices |-> devices, wires |-> wires]

\* The example of the specification: a resistor and a junction sharing "n1".
ExampleGraph ==
    Graph(<<Device("R1", Str_resistor, Position(1, 0), 0, <<"n1", "n2">>),
            Device("J1", Str_junction, Position(1, 0), 0, <<"n1">>)>>,
          <<Wire("W1", <<"n1", "n2">>)>>)

\* Junctions in mixed case, several junctions on one node, local scale
\* factors (absent, 0, 2), a dangling wire and a wire with one node id.
MixedGraph ==
    Graph(<<Device("R1", Str_Resistor, PositionSF(2, -1, 2), 90, <<"n1", "n2">>),
            Device("G1", Str_ground, PositionSF(-1, 1, 0), 0, <<"n2", "n3">>),
            Device("J1", Str_Junction, Position(0, 2), 0, <<"n2">>),
            Device("J2", Str_JUNCTION, PositionSF(-2, -2, 2), 180, <<"n2", "n4">>),
            Device("X1", Str_widget, Position(1, 1), 270, <<"n5">>)>>,
          <<Wire("W1", <<"n1", "n2">>),
            Wire("W2", <<"n3", "n9">>),
            Wire("W3", <<"n4", "n3">>),
            Wire("W4", <<"n1">>),
            Wire("W5", <<"n5", "n1">>)>>)

\* No junction at all: two devices share "n1", the first one listed wins.
SharedNodeGraph ==
    Graph(<<Device("C1", Str_ground, Position(1, 1), 0, <<"n1">>),
            Device("R2", Str_resistor, PositionSF(-1, 2, 2), 0, <<"n1", "n2">>)>>,
          <<Wire("W1", <<"n1", "n2">>), Wire("W2", <<"n2", "n1">>)>>)

\* Entities that lack a field: a capacitor without position listed before a
\* complete resistor, a device without nodes, a wire without nodes.
NoPositionGraph ==
    Graph(<<[deviceId |-> "C9", deviceType |-> Str_capacitor, rotation |-> 0,
             nodes |-> <<"n3">>],
            Device("R1", Str_resistor, Position(1, 0), 0, <<"n1", "n2">>)>>,
          <<Wire("W1", <<"n1", "n2">>)>>)
NoNodesGraph ==
    Graph(<<Device("R1", Str_resistor, Position(1, 0), 0, <<"n1", "n2">>),
            [deviceId |-> "C9", deviceType |-> Str_capacitor, rotation |-> 0,
             position |-> Position(0, 1)]>>,
          <<Wire("W1", <<"n1", "n2">>)>>)
NoWireNodesGraph ==
    Graph(<<Device("R1", Str_resistor, Position(1, 0), 0, <<"n1", "n2">>)>>,
          <<[wireId |-> "W9"], Wire("W1", <<"n1", "n2">>)>>)

\* Wires only: every endpoint dangles.
WiresOnlyGraph == Graph(<<>>, <<Wire("W1", <<"n1", "n2">>)>>)

Coords == (0 - MaxCoord)..MaxCoord

\* A resistor listed before a junction on the same node, at every pair of
\* positions on the two diagonals, and a second resistor with a local scale.
PlacedGraph(px, pz) ==
    Graph(<<Device("R1", Str_resistor, PositionSF(px, pz, 2), 0, <<"n1", "n2">>),
            Device("J1", Str_Junction, Position(pz, 0 - px), 0, <<"n1">>),
            Device("R2", Str_Resistor, Position(0 - px, pz), 90, <<"n2", "n3">>)>>,
          <<Wire("W1", <<"n1", "n2">>), Wire("W2", <<"n3", "n1">>),
            Wire("W3", <<"n2", "n7">>)>>)

RenderGraphs ==
    {ExampleGraph, MixedGraph, SharedNodeGraph, WiresOnlyGraph}
    \cup {PlacedGraph(px, pz) : px \in Coords, pz \in Coords}

\* What the JSON editor and the upload hand over in the interaction model.
EditGraphs == {Null, ExampleGraph}

Pointers == {Point(px, py) : px \in 0..MaxPointer, py \in 0..MaxPointer}
DeltaYs == {-100, 0, 100}
SliderValues == {SliderMin, InitialScaleFactor, SliderMax}
ContainerSizes == {[width |-> InitWidth, height |-> InitHeight],
                   [width |-> 1000, height |-> 1000],
                   [width |-> 500, height |-> 700]}

\* --------------------------------------------------------------- state
VARIABLES
    circuitData,        \* prop: the circuit graph, or Null
    scale,              \* useState(1): zoomScale
    pan,                \* useState({x: 0, y: 0})
    isDragging,         \* useState(false)
    dragStart,          \* useState({x: 0, y: 0})
    canvasSize,         \* useState({width: 800, height: 600})
    rotation,           \* useState(0): rotationQuadrant
    globalScaleFactor,  \* useState(initialScaleFactor)
    frame,              \* what the latest render pass issued
    surface,            \* the canvas bitmap: "blank" or "painted"
    canvasRef,          \* the canvas element and its 2D context: "ok", "no2d"
    parentScaleFactor,  \* Home: useState(8000), set by onScaleFactorChange
    pressPos,           \* history: pointer position of the latest press
    pressPan,           \* history: pan at the latest press
    lastPos,            \* history: pointer position of the latest press or
                        \*          move while dragging
    page                \* Home's other state and the JsonEditor's state

vars == <<circuitData, scale, pan, isDragging, dragStart, canvasSize, rotation,
          globalScaleFactor, frame, surface, canvasRef, parentScaleFactor,
          pressPos, pressPan, lastPos, page>>
canvasVars == <<circuitData, scale, pan, isDragging, dragStart, canvasSize,
                rotation, globalScaleFactor, frame, surface, canvasRef,
                parentScaleFactor, pressPos, pressPan, lastPos>>
history == <<pressPos, pressPan, lastPos>>

View == [scale |-> scale, pan |-> pan, rotation |-> rotation,
         globalScaleFactor |-> globalScaleFactor]

\* The dependency list of drawWire.
DrawWireDeps(v) == <<v.scale, v.pan, v.globalScaleFactor, v.rotation>>

\* drawDevice depends on deviceColors and componentEmojis, object literals
\* that every render creates anew: every render makes a new drawDevice.
DrawDeviceMemoized == FALSE
DrawDeviceChanged == TRUE

\* Whether a render makes a new draw: its dependency list names circuitData,
\* scale, pan, drawDevice and drawWire (drawCheckerPattern and
\* calculateNodePositions never change).  A closure is made anew whenever a
\* value it reads changes, so the draw that runs reads the state of its render.
DrawChangedNamedOnly(graphChanged, before, after) ==
    \/ graphChanged
    \/ before.scale # after.scale
    \/ before.pan # after.pan
DrawChanged(graphChanged, before, after) ==
    \/ graphChanged
    \/ before.scale # after.scale
    \/ before.pan # after.pan
    \/ DrawDeviceChanged
    \/ DrawWireDeps(before) # DrawWireDeps(after)

\* useEffect(() => { draw(); }, [draw]): the pass runs after a render that made
\* a new draw.  cleared: the handler assigned canvas.width, which blanks the
\* bitmap before the render.
Redraw(runs, cleared) ==
    LET pass == DrawOnCanvas(canvasRef, circuitData', canvasSize',
                     [scale |-> scale', pan |-> pan', rotation |-> rotation',
                      globalScaleFactor |-> globalScaleFactor'])
    IN  /\ frame' = IF runs THEN pass ELSE frame
        /\ surface' = IF runs /\ frame'.ops # <<>> THEN "painted"
                      ELSE IF cleared THEN "blank"
                      ELSE surface

\* useEffect(() => { onScaleFactorChange(globalScaleFactor); },
\*           [globalScaleFactor, onScaleFactorChange]): the values the callback
\* is invoked with after a render; the parent's setter keeps its identity.
ScaleFactorEffectNever(rendered, before, after) == <<>>
ScaleFactorEffect(rendered, before, after) ==
    IF rendered /\ before # after THEN <<after>> ELSE <<>>

\* onScaleFactorChange={setGlobalScaleFactor} in Home
Notified(calls, parent) == IF calls = <<>> THEN parent ELSE calls[Len(calls)]

\* What follows a handler: if a state or a prop changed, React renders and
\* runs the effects whose dependencies changed; otherwise nothing happens.
CanvasCommit(rendered, graphChanged, cleared) ==
    /\ Redraw(rendered /\ DrawChanged(graphChanged, View,
                  [scale |-> scale', pan |-> pan', rotation |-> rotation',
                   globalScaleFactor |-> globalScaleFactor']),
              cleared)
    /\ parentScaleFactor' =
          Notified(ScaleFactorEffect(rendered, globalScaleFactor,
                                     globalScaleFactor'),
                   parentScaleFactor)
    /\ UNCHANGED canvasRef

\* An event of the canvas sets no state of Home or of the JsonEditor.
Commit(rendered, graphChanged, cleared) ==
    /\ CanvasCommit(rendered, graphChanged, cleared)
    /\ UNCHANGED page

\* Home: useState(false), useState(null) for originalImage, error and
\* detectionSteps; no upload is in flight and, circuitData being null, no
\* JsonEditor is mounted.
NoString == "<null>"
Unmounted == [unmounted |-> TRUE]
InitPage ==
    [isLoading |-> FALSE, error |-> NoString, originalImage |-> Null,
     detectionSteps |-> Null, uploads |-> <<>>, lastStarted |-> NoString,
     jsonEditor |-> Unmounted, onUpdate |-> <<>>]

Init ==
    /\ circuitData = Null
    /\ scale = InitScale
    /\ pan = Point(0, 0)
    /\ isDragging = FALSE
    /\ dragStart = Point(0, 0)
    /\ canvasSize = [width |-> InitWidth, height |-> InitHeight]
    /\ rotation = 0
    /\ globalScaleFactor = InitialScaleFactor
    /\ canvasRef = "ok"
    /\ frame = DrawOnCanvas(canvasRef, circuitData, canvasSize, View)
    /\ surface = "blank"
    /\ page = InitPage
    /\ parentScaleFactor = globalScaleFactor
    /\ pressPos = Point(0, 0)
    /\ pressPan = Point(0, 0)
    /\ lastPos = Point(0, 0)

\* ------------------------------------------------------------- handlers
\* Math.max(0.1, Math.min(10, s))
ClampNoFloor(s) == Min(MaxScale, s)
ClampNoCeiling(s) == Max(MinScale, s)
Clamp(s) == Max(MinScale, Min(MaxScale, s))

\* const direction = e.deltaY > 0 ? -1 : 1
DirectionNotInverted(deltaY) == IF deltaY > 0 THEN 1 ELSE -1
Direction(deltaY) == IF deltaY > 0 THEN -1 ELSE 1

handleWheel(deltaY) ==
    /\ scale' = Clamp(scale + Direction(deltaY) * zoomFactor)
    /\ UNCHANGED <<circuitData, pan, isDragging, dragStart, canvasSize,
                   rotation, globalScaleFactor, history>>
    /\ Commit(scale' # scale, FALSE, FALSE)

\* setDragStart({ x: e.clientX - pan.x, y: e.clientY - pan.y })
DragStartIgnoringPan(p, curPan) == p
DragStartOf(p, curPan) == Point(p.x - curPan.x, p.y - curPan.y)

handleMouseDown(p) ==
    /\ isDragging' = TRUE
    /\ dragStart' = DragStartOf(p, pan)
    /\ pressPos' = p
    /\ pressPan' = pan
    /\ lastPos' = p
    /\ UNCHANGED <<circuitData, scale, pan, canvasSize, rotation,
                   globalScaleFactor>>
    /\ Commit(TRUE, FALSE, FALSE)

\* if (isDragging) setPan({ x: e.clientX - dragStart.x, ... })
PanOnMoveAlways(p, dragging, start, curPan) == Point(p.x - start.x, p.y - start.y)
PanOnMove(p, dragging, start, curPan) ==
    IF dragging THEN Point(p.x - start.x, p.y - start.y) ELSE curPan

InPanBounds(q) ==
    /\ q.x >= 0 - MaxPan /\ q.x <= MaxPan
    /\ q.y >= 0 - MaxPan /\ q.y <= MaxPan

handleMouseMove(p) ==
    /\ InPanBounds(PanOnMove(p, isDragging, dragStart, pan))
    /\ pan' = PanOnMove(p, isDragging, dragStart, pan)
    /\ lastPos' = IF isDragging THEN p ELSE lastPos
    /\ UNCHANGED <<circuitData, scale, isDragging, dragStart, canvasSize,
                   rotation, globalScaleFactor, pressPos, pressPan>>
    /\ Commit(isDragging, FALSE, FALSE)

\* setIsDragging(false); onMouseUp and onMouseLeave are both this handler.
DraggingAfterUpKept(dragging) == dragging
DraggingAfterUp(dragging) == FALSE

handleMouseUp ==
    /\ isDragging' = DraggingAfterUp(isDragging)
    /\ UNCHANGED <<circuitData, scale, pan, dragStart, canvasSize, rotation,
                   globalScaleFactor, history>>
    /\ Commit(isDragging' # isDragging, FALSE, FALSE)

onMouseUp == handleMouseUp
onMouseLeave == handleMouseUp

\* setRotation((prev) => (prev + 90) % 360)
NextRotationNoWrap(prev) == prev + 90
NextRotation(prev) == (prev + 90) % 360

\* A rotate that also recentres the view.
handleRotateRecentre ==
    /\ rotation' = NextRotation(rotation)
    /\ pan' = Point(0, 0)
    /\ UNCHANGED <<circuitData, scale, isDragging, dragStart, canvasSize,
                   globalScaleFactor, history>>
    /\ Commit(TRUE, FALSE, FALSE)

handleRotate ==
    /\ rotation' = NextRotation(rotation)
    /\ UNCHANGED <<circuitData, scale, pan, isDragging, dragStart, canvasSize,
                   globalScaleFactor, history>>
    /\ Commit(TRUE, FALSE, FALSE)

\* onValueChange={([value]) => setGlobalScaleFactor(value)}
onValueChange(value) ==
    /\ globalScaleFactor' = value
    /\ UNCHANGED <<circuitData, scale, pan, isDragging, dragStart, canvasSize,
                   rotation, history>>
    /\ Commit(globalScaleFactor' # globalScaleFactor, FALSE, FALSE)

\* The parent hands over another circuitData (upload, JSON editor).
SetCircuitData(g) ==
    /\ circuitData' = g
    /\ UNCHANGED <<scale, pan, isDragging, dragStart, canvasSize, rotation,
                   globalScaleFactor, history>>
    /\ Commit(TRUE, TRUE, FALSE)

\* ------------------------------------------------------------- the page
\* if (!data.devices || !data.wires) throw ...: a missing list is undefined.
HasBothLists(data) == "devices" \in DOMAIN data /\ "wires" \in DOMAIN data

\* JSON.parse and JSON.stringify(value, null, 2) on the texts the model types
\* into the editor and on the graphs the editor is mounted with.
Text_example == "{\"devices\": [R1, J1], \"wires\": [W1]}"
Text_noWires == "{\"devices\": []}"
Text_noDevices == "{\"wires\": []}"
Text_noLists == "{\"title\": \"x\"}"
Text_null == "null"
Text_partial == "{\"devices\": ["
Pretty_example == "{\n  \"devices\": [\n    R1,\n    J1\n  ],\n  \"wires\": [\n    W1\n  ]\n}"
Pretty_shared == "{\n  \"devices\": [\n    R1,\n    J1,\n    J2\n  ],\n  \"wires\": [\n    W1\n  ]\n}"

JSONParse(text) ==
    CASE text = Text_example -> [ok |-> TRUE, value |-> ExampleGraph]
      [] text = Pretty_example -> [ok |-> TRUE, value |-> ExampleGraph]
      [] text = Pretty_shared -> [ok |-> TRUE, value |-> SharedNodeGraph]
      [] text = Text_noWires -> [ok |-> TRUE, value |-> [devices |-> <<>>]]
      [] text = Text_noDevices -> [ok |-> TRUE, value |-> [wires |-> <<>>]]
      [] text = Text_noLists -> [ok |-> TRUE, value |-> [title |-> "x"]]
      [] text = Text_null -> [ok |-> TRUE, value |-> Null]
      [] OTHER -> [ok |-> FALSE]
JSONStringify(value) ==
    CASE value = ExampleGraph -> Pretty_example
      [] value = SharedNodeGraph -> Pretty_shared

\* {circuitData && (<JsonEditor initialData={circuitData} .../>)}: the editor
\* exists while circuitData is truthy and the tree is mounted; it takes its
\* text from the graph it is mounted with and keeps its state afterwards.
EditorFor(editor, cd, fault) ==
    IF fault \/ IsNull(cd) THEN Unmounted
    ELSE IF editor = Unmounted
    THEN [jsonText |-> JSONStringify(cd), error |-> NoString]
    ELSE editor

\* Home renders with circuitData g and the state p; the canvas renders with
\* it and its effects run.
HomeRenders(g, p) ==
    /\ circuitData' = g
    /\ UNCHANGED <<scale, pan, isDragging, dragStart, canvasSize, rotation,
                   globalScaleFactor, history>>
    /\ CanvasCommit(TRUE, g # circuitData, FALSE)
    /\ page' = [p EXCEPT !.jsonEditor = EditorFor(@, g, frame'.fault)]

\* The server: what /analyze-circuit answers for a file, and what /detect
\* may answer.
Files ==
    {"example.png", "shared.png", "noPosition.png", "noNodes.png",
     "noWireNodes.png", "noWires.png", "noDevices.png", "unreadable.png"}
AnalyzeCircuit(file) ==
    CASE file = "example.png" -> [ok |-> TRUE, data |-> ExampleGraph]
      [] file = "shared.png" -> [ok |-> TRUE, data |-> SharedNodeGraph]
      [] file = "noPosition.png" -> [ok |-> TRUE, data |-> NoPositionGraph]
      [] file = "noNodes.png" -> [ok |-> TRUE, data |-> NoNodesGraph]
      [] file = "noWireNodes.png" -> [ok |-> TRUE, data |-> NoWireNodesGraph]
      [] file = "noWires.png" -> [ok |-> TRUE, data |-> [devices |-> <<>>]]
      [] file = "noDevices.png" -> [ok |-> TRUE, data |-> [wires |-> <<>>]]
      [] OTHER -> [ok |-> FALSE, data |-> Null]
ServerResponses == {AnalyzeCircuit(file) : file \in Files}
DetectResponses ==
    {[ok |-> TRUE, data |-> [components |-> "c", masked |-> "m", lines |-> "l"]],
     [ok |-> TRUE, data |-> [components |-> "c", masked |-> "m"]],
     [ok |-> FALSE, data |-> Null]}
HasSteps(data) ==
    /\ "components" \in DOMAIN data
    /\ "masked" \in DOMAIN data
    /\ "lines" \in DOMAIN data
\* URL.createObjectURL(file)
ObjectURL(file) == [blob |-> file]

\* The messages of the two versions of the handler.
AnalysisError(r, withSteps) ==
    IF ~r.ok
    THEN IF withSteps THEN "Circuit analysis failed" ELSE "HTTP error! status"
    ELSE IF withSteps THEN "Invalid circuit data format received from server"
         ELSE "Invalid data format received from server"
DetectError(d) ==
    IF ~d.ok THEN "Detection steps failed: Detection steps failed"
    ELSE "Detection steps failed: Invalid detection steps data"

Remove(seq, i) == SubSeq(seq, 1, i - 1) \o SubSeq(seq, i + 1, Len(seq))

\* handleImageUpload up to its first await: setIsLoading(true),
\* setError(null), and the request is in flight.
handleImageUpload(file) ==
    HomeRenders(circuitData,
        [page EXCEPT !.isLoading = TRUE,
                     !.error = NoString,
                     !.uploads = Append(@, [file |-> file,
                                            awaiting |-> "analyze"]),
                     !.lastStarted = file])

\* finally { setIsLoading(false); }
LoadingAfter(uploads) == FALSE

\* The catch block of the version with detection steps: setCircuitData(null)
\* and setDetectionSteps(null) after setError.
GraphAfterFailureKept(cd, withSteps) == cd
GraphAfterFailure(cd, withSteps) == IF withSteps THEN Null ELSE cd

\* handleImageUpload from the settling of the analysis request of upload
\* number i: the page.tsx version ends here, the version with detection
\* steps goes on to await /detect after a valid payload.
AnalysisSettles(i, withSteps) ==
    LET u == page.uploads[i]
        r == AnalyzeCircuit(u.file)
        rest == Remove(page.uploads, i)
    IN  /\ u.awaiting = "analyze"
        /\ IF r.ok /\ HasBothLists(r.data)
           THEN IF withSteps
                THEN HomeRenders(r.data,
                        [page EXCEPT !.originalImage = ObjectURL(u.file),
                                     !.uploads[i].awaiting = "detect"])
                ELSE HomeRenders(r.data,
                        [page EXCEPT !.originalImage = ObjectURL(u.file),
                                     !.isLoading = LoadingAfter(rest),
                                     !.uploads = rest])
           ELSE HomeRenders(GraphAfterFailure(circuitData, withSteps),
                    [page EXCEPT !.error = AnalysisError(r, withSteps),
                                 !.detectionSteps =
                                     IF withSteps THEN Null ELSE @,
                                 !.isLoading = LoadingAfter(rest),
                                 !.uploads = rest])

\* handleImageUpload of the version with detection steps, from the settling
\* of the /detect request with the answer d.
DetectSettles(i, d) ==
    LET u == page.uploads[i]
        rest == Remove(page.uploads, i)
    IN  /\ u.awaiting = "detect"
        /\ IF d.ok /\ HasSteps(d.data)
           THEN HomeRenders(circuitData,
                    [page EXCEPT !.detectionSteps =
                                     [original |-> ObjectURL(u.file),
                                      components |-> d.data.components,
                                      masked |-> d.data.masked,
                                      lines |-> d.data.lines],
                                 !.isLoading = LoadingAfter(rest),
                                 !.uploads = rest])
           ELSE HomeRenders(circuitData,
                    [page EXCEPT !.error = DetectError(d),
                                 !.isLoading = LoadingAfter(rest),
                                 !.uploads = rest])

\* const handleJsonUpdate = (newData: any) => { setCircuitData(newData); }
handleJsonUpdate(newData, p) == HomeRenders(newData, p)

\* JsonEditor.handleChange: setJsonText, then JSON.parse; a text that parses
\* clears the editor's error and goes to onUpdate, one that does not sets the
\* error and re-renders the editor only.
EditorErrorAlwaysCleared(parsed) == NoString
EditorError(parsed) == IF parsed.ok THEN NoString ELSE "Invalid JSON format"

handleChange(text) ==
    /\ page.jsonEditor # Unmounted
    /\ LET parsed == JSONParse(text)
           typed == [jsonText |-> text, error |-> EditorError(parsed)]
       IN  IF parsed.ok
           THEN handleJsonUpdate(parsed.value,
                    [page EXCEPT !.jsonEditor = typed,
                                 !.onUpdate = <<parsed.value>>])
           ELSE /\ page' = [page EXCEPT !.jsonEditor = typed,
                                        !.onUpdate = <<>>]
                /\ UNCHANGED canvasVars

\* window "resize": initializeCanvas takes the container's size.
initializeCanvas(size) ==
    /\ canvasRef # "none"
    /\ canvasSize' = size
    /\ UNCHANGED <<circuitData, scale, pan, isDragging, dragStart, rotation,
                   globalScaleFactor, history>>
    /\ Commit(TRUE, FALSE, TRUE)

\* ------------------------------------------------------- specifications
\* The ends of the pointer range: drags along one diagonal.
CornerPointers == {Point(0, 0), Point(MaxPointer, MaxPointer)}

\* The interaction model: every event of the canvas, with the whole zoom
\* range and drags between two pointer positions.
Next ==
    \/ \E deltaY \in DeltaYs : handleWheel(deltaY)
    \/ \E p \in CornerPointers : handleMouseDown(p)
    \/ \E p \in CornerPointers : handleMouseMove(p)
    \/ onMouseUp
    \/ onMouseLeave
    \/ handleRotate
    \/ \E value \in {SliderMin, SliderMax} : onValueChange(value)
    \/ \E g \in EditGraphs : SetCircuitData(g)

Spec == Init /\ [][Next]_vars

\* The pointer events with every pointer position, interleaved with wheel
\* events that only scroll down (the zoom range below the initial zoom) and
\* with changes of the graph.
NextPan ==
    \/ \E deltaY \in {100} : handleWheel(deltaY)
    \/ \E p \in Pointers : handleMouseDown(p)
    \/ \E p \in Pointers : handleMouseMove(p)
    \/ onMouseUp
    \/ onMouseLeave
    \/ \E g \in EditGraphs : SetCircuitData(g)

PanSpec == Init /\ [][NextPan]_vars

\* The render pass over a range of graphs, from view states the interaction
\* model reaches: a zoom of 0.1, 1 or 10 and a pan left by one drag.
RenderScales == {MinScale, InitScale, MaxScale}

InitRender ==
    /\ circuitData = Null
    /\ scale \in RenderScales
    /\ \E p \in {Point(0, MaxPointer), Point(MaxPointer, 0)} :
          /\ pressPos = Point(0, MaxPointer)
          /\ pressPan = Point(0, 0)
          /\ lastPos = p
          /\ dragStart = DragStartOf(pressPos, pressPan)
          /\ pan = PanOnMove(p, TRUE, dragStart, pressPan)
    /\ isDragging = FALSE
    /\ canvasSize = [width |-> InitWidth, height |-> InitHeight]
    /\ rotation = 0
    /\ globalScaleFactor = InitialScaleFactor
    /\ canvasRef = "ok"
    /\ frame = DrawOnCanvas(canvasRef, circuitData, canvasSize, View)
    /\ surface = "blank"
    /\ page = InitPage
    /\ parentScaleFactor = globalScaleFactor

NextRender ==
    \/ \E g \in RenderGraphs \cup {Null} : SetCircuitData(g)
    \/ handleRotate
    \/ \E value \in SliderValues : onValueChange(value)
    \/ \E size \in ContainerSizes : initializeCanvas(size)

RenderSpec == InitRender /\ [][NextRender]_vars

\* The canvas mounted by a caller that supplies any number as
\* initialScaleFactor (Props: initialScaleFactor: number); after the mount the
\* slider delivers values of its own range.
CallerScaleFactors ==
    {SliderMin - 5 * SliderStep, SliderMin, InitialScaleFactor, SliderMax,
     SliderMax + 50 * SliderStep}

InitMount ==
    /\ circuitData = Null
    /\ scale = InitScale
    /\ pan = Point(0, 0)
    /\ isDragging = FALSE
    /\ dragStart = Point(0, 0)
    /\ canvasSize = [width |-> InitWidth, height |-> InitHeight]
    /\ rotation = 0
    /\ globalScaleFactor \in CallerScaleFactors
    /\ canvasRef = "ok"
    /\ frame = DrawOnCanvas(canvasRef, circuitData, canvasSize, View)
    /\ surface = "blank"
    /\ page = InitPage
    /\ parentScaleFactor = globalScaleFactor
    /\ pressPos = Point(0, 0)
    /\ pressPan = Point(0, 0)
    /\ lastPos = Point(0, 0)

NextMount ==
    \/ \E g \in EditGraphs : SetCircuitData(g)
    \/ handleRotate
    \/ \E value \in SliderValues : onValueChange(value)
    \/ \E size \in ContainerSizes : initializeCanvas(size)

MountSpec == InitMount /\ [][NextMount]_vars

\* Every event of the canvas together with the effects of its render, on a
\* canvas whose getContext("2d") may have failed; the wheel only scrolls down.
CanvasRefs == {"ok", "no2d"}
ResizeSizes ==
    {[width |-> InitWidth, height |-> InitHeight],
     [width |-> 500, height |-> 700]}

InitEffect ==
    /\ circuitData = Null
    /\ scale = InitScale
    /\ pan = Point(0, 0)
    /\ isDragging = FALSE
    /\ dragStart = Point(0, 0)
    /\ canvasSize = [width |-> InitWidth, height |-> InitHeight]
    /\ rotation = 0
    /\ globalScaleFactor = InitialScaleFactor
    /\ canvasRef \in CanvasRefs
    /\ frame = DrawOnCanvas(canvasRef, circuitData, canvasSize, View)
    /\ surface = "blank"
    /\ page = InitPage
    /\ parentScaleFactor = globalScaleFactor
    /\ pressPos = Point(0, 0)
    /\ pressPan = Point(0, 0)
    /\ lastPos = Point(0, 0)

NextEffect ==
    \/ handleWheel(100)
    \/ \E p \in CornerPointers : handleMouseDown(p)
    \/ \E p \in CornerPointers : handleMouseMove(p)
    \/ onMouseUp
    \/ onMouseLeave
    \/ handleRotate
    \/ \E value \in {SliderMin, SliderMax} : onValueChange(value)
    \/ \E g \in EditGraphs : SetCircuitData(g)
    \/ \E size \in ResizeSizes : initializeCanvas(size)

EffectSpec == InitEffect /\ [][NextEffect]_vars

\* The page: uploads and JSON edits feed the canvas.  An exception thrown by
\* the draw effect unmounts the whole tree: no handler runs afterwards.
EditorTexts ==
    {Text_example, Text_noWires, Text_noDevices, Text_noLists, Text_null,
     Text_partial}

Mounted == ~frame.fault

NextPage ==
    \/ Mounted /\ page.uploads = <<>>
               /\ \E file \in Files : handleImageUpload(file)
    \/ Mounted /\ \E i \in 1..Len(page.uploads) : AnalysisSettles(i, FALSE)
    \/ Mounted /\ \E text \in EditorTexts : handleChange(text)
PageSpec == Init /\ [][NextPage]_vars

\* Uploads that overlap: the uploader stays enabled while a request is in
\* flight, so a second file can be dropped before the first answer arrives.
\* The files are answered with a graph, another graph, a payload without
\* wires, and a failure.
UploadFiles == {"example.png", "shared.png", "noWires.png", "unreadable.png"}
NextUpload ==
    \/ Mounted /\ Len(page.uploads) < MaxUploads
               /\ \E file \in UploadFiles : handleImageUpload(file)
    \/ Mounted /\ \E i \in 1..Len(page.uploads) : AnalysisSettles(i, FALSE)

UploadSpec == Init /\ [][NextUpload]_vars

\* The version of the page with detection steps: after a valid analysis the
\* handler awaits /detect, which answers with the steps, with a payload
\* lacking one, or fails.
NextSteps ==
    \/ Mounted /\ Len(page.uploads) < MaxUploads
               /\ \E file \in UploadFiles : handleImageUpload(file)
    \/ Mounted /\ \E i \in 1..Len(page.uploads) : AnalysisSettles(i, TRUE)
    \/ Mounted /\ \E i \in 1..Len(page.uploads) :
                     \E d \in DetectResponses : DetectSettles(i, d)

StepsSpec == Init /\ [][NextSteps]_vars

\* ---------------------------------------------------------- properties
\* The drawing operations of the latest render pass, by kind.
StrokeOps == SelectSeq(frame.ops, LAMBDA o : o.op = "stroke")
DeviceOps == SelectSeq(frame.ops, LAMBDA o : o.op = "device")

\* The quadrant formula of the specification, section 4.1, step 2, for scaled
\* coordinates sx, sz and a factor k, in screen numerators.
QuadrantPoint(q, sx, sz, k, p) ==
    CASE q = 0 -> Point(sx * k + p.x * ScreenDen, sz * k + p.y * ScreenDen)
      [] q = 90 -> Point(0 - sz * k + p.x * ScreenDen, sx * k + p.y * ScreenDen)
      [] q = 180 -> Point(0 - sx * k + p.x * ScreenDen, 0 - sz * k + p.y * ScreenDen)
      [] q = 270 -> Point(sz * k + p.x * ScreenDen, 0 - sx * k + p.y * ScreenDen)

\* position.x * globalScaleFactor, in units of GsfUnit
Scaled(a) == a * (globalScaleFactor \div GsfUnit)

\* C1: every device of the drawn graph is placed at the quadrant formula of
\* its position with k = baseScale * zoomScale * localScaleFactor.
C1_DevicePlacement ==
    ~IsNull(circuitData) =>
        /\ Len(DeviceOps) = Len(circuitData.devices)
        /\ \A i \in 1..Len(circuitData.devices) :
              LET d == circuitData.devices[i]
                  k == BaseScale(canvasSize) * scale * ScaleFactorOf(d.position)
              IN  /\ DeviceOps[i].deviceId = d.deviceId
                  /\ rotation \in {0, 90, 180, 270}
                  /\ DeviceOps[i].at =
                        QuadrantPoint(rotation, Scaled(d.position.x),
                                      Scaled(d.position.z), k, pan)

\* A device with a local scale factor of 2 and distinct non-zero coordinates
\* is drawn in quadrant 270 with a non-zero pan.
C1_Witness ==
    /\ ~IsNull(circuitData)
    /\ rotation = 270
    /\ pan.x # 0
    /\ \E i \in 1..Len(circuitData.devices) :
          LET d == circuitData.devices[i]
          IN  /\ ScaleFactorOf(d.position) = 2
              /\ d.position.x # 0 /\ d.position.z # 0
              /\ d.position.x # d.position.z
              /\ \E j \in 1..Len(frame.ops) :
                    /\ frame.ops[j].op = "device"
                    /\ frame.ops[j].deviceId = d.deviceId

\* C2: both ends of every stroked wire are at the quadrant formula of the
\* resolved position with k = baseScale * zoomScale, the position's own
\* scaleFactor left out; in the example's view state an endpoint resolved to
\* {x: 1, z: 0} is at (900, 0).
C2_WireEndpoints ==
    \A j \in 1..Len(StrokeOps) :
        LET o == StrokeOps[j]
            k == BaseScale(canvasSize) * scale
        IN  /\ rotation \in {0, 90, 180, 270}
            /\ o.from = QuadrantPoint(rotation, Scaled(o.startPos.x),
                                      Scaled(o.startPos.z), k, pan)
            /\ o.to = QuadrantPoint(rotation, Scaled(o.endPos.x),
                                    Scaled(o.endPos.z), k, pan)
            /\ ( /\ rotation = 0 /\ scale = ScaleDen /\ pan = Point(0, 0)
                 /\ globalScaleFactor = 1000
                 /\ BaseScale(canvasSize) = (9 * NominalExtent * MarginDen) \div 10
                 /\ o.startPos.x = 1 /\ o.startPos.z = 0 )
               => o.from = Point(900 * ScreenDen, 0)

\* A wire end resolved to a position that carries a scaleFactor of 2 is
\* stroked in a quadrant other than 0.
C2_Witness ==
    /\ rotation = 90
    /\ \E j \in 1..Len(frame.ops) :
          /\ frame.ops[j].op = "stroke"
          /\ "scaleFactor" \in DOMAIN frame.ops[j].startPos
          /\ frame.ops[j].startPos.scaleFactor = 2
          /\ frame.ops[j].startPos.x # 0

\* The spellings of "junction" the graphs of the model use.
JunctionSpellings == {Str_junction, Str_Junction, Str_JUNCTION}
NodeIdsOf(devices) ==
    UNION {{devices[i].nodes[n] : n \in 1..Len(devices[i].nodes)} :
           i \in 1..Len(devices)}
JunctionsListing(devices, nodeId) ==
    {i \in 1..Len(devices) :
        /\ devices[i].deviceType \in JunctionSpellings
        /\ \E n \in 1..Len(devices[i].nodes) : devices[i].nodes[n] = nodeId}

WireOf(o) ==
    CHOOSE w \in {circuitData.wires[i] : i \in 1..Len(circuitData.wires)} :
        w.wireId = o.wireId
\* The devices of the drawn graph that list a node id, by number.
Listing(nodeId) ==
    {i \in 1..Len(circuitData.devices) :
        \E n \in 1..Len(circuitData.devices[i].nodes) :
            circuitData.devices[i].nodes[n] = nodeId}
FirstListing(nodeId) ==
    CHOOSE i \in Listing(nodeId) : \A j \in Listing(nodeId) : i <= j
\* The position the specification gives an endpoint node id.
Expected(nodeId) ==
    IF nodeId \in DOMAIN frame.nodePositions
    THEN frame.nodePositions[nodeId]
    ELSE circuitData.devices[FirstListing(nodeId)].position

\* C4: each end of a stroked wire uses the mapped junction position of its
\* node id, and otherwise the position of the first device listing it.
C4_EndpointResolution ==
    \A j \in 1..Len(StrokeOps) :
        LET o == StrokeOps[j]
            w == WireOf(o)
        IN  /\ Len(w.nodes) >= 2
            /\ Listing(w.nodes[1]) # {} /\ Listing(w.nodes[2]) # {}
            /\ o.startPos = Expected(w.nodes[1])
            /\ o.endPos = Expected(w.nodes[2])

\* One stroke has an end on a mapped node that a non-junction lists first,
\* and an end on an unmapped node that two devices at different positions list.
C4_Witness ==
    \E j \in 1..Len(frame.ops) :
        /\ frame.ops[j].op = "stroke"
        /\ LET w == WireOf(frame.ops[j])
               a == w.nodes[1]
               b == w.nodes[2]
           IN  /\ a \in DOMAIN frame.nodePositions
               /\ circuitData.devices[FirstListing(a)].position
                     # frame.nodePositions[a]
               /\ b \notin DOMAIN frame.nodePositions
               /\ \E i \in Listing(b) :
                     circuitData.devices[i].position
                        # circuitData.devices[FirstListing(b)].position

\* A wire dangles when an endpoint node id of it is listed by no device.
Dangling(w) == \E k \in 1..2 : k > Len(w.nodes) \/ Listing(w.nodes[k]) = {}
HasDangling ==
    \E i \in 1..Len(circuitData.wires) : Dangling(circuitData.wires[i])
StrokesOf(w) == {j \in 1..Len(frame.ops) :
                    frame.ops[j].op = "stroke" /\ frame.ops[j].wireId = w.wireId}
GlyphsOf(d) == {j \in 1..Len(frame.ops) :
                    frame.ops[j].op = "device" /\ frame.ops[j].deviceId = d.deviceId}

\* C5: in a pass over a graph with a dangling wire nothing is thrown, the
\* dangling wires are not stroked, every other wire is stroked once and every
\* device is drawn once.
C5_DanglingWire ==
    (~IsNull(circuitData) /\ HasDangling) =>
        /\ ~frame.fault
        /\ \A i \in 1..Len(circuitData.wires) :
              LET w == circuitData.wires[i]
              IN  Cardinality(StrokesOf(w)) = IF Dangling(w) THEN 0 ELSE 1
        /\ \A i \in 1..Len(circuitData.devices) :
              Cardinality(GlyphsOf(circuitData.devices[i])) = 1

\* A dangling wire lies between two wires that are stroked, in a graph with
\* devices.
C5_Witness ==
    /\ ~IsNull(circuitData)
    /\ \E i, j, k \in 1..Len(circuitData.wires) :
          /\ i < j /\ j < k
          /\ Dangling(circuitData.wires[j])
          /\ Len(circuitData.wires[j].nodes) = 2
          /\ StrokesOf(circuitData.wires[i]) # {}
          /\ StrokesOf(circuitData.wires[k]) # {}
    /\ Len(DeviceOps) >= 2

\* C6: a pass that draws clears, paints the checkerboard, strokes the wires
\* and then draws the devices, in this order.
C6_DrawOrder ==
    frame.ops # <<>> =>
        /\ Len(frame.ops) >= 2
        /\ frame.ops[1].op = "clearRect"
        /\ frame.ops[2].op = "checker"
        /\ \A i \in 3..Len(frame.ops) : frame.ops[i].op \in {"stroke", "device"}
        /\ \A i, j \in 3..Len(frame.ops) :
              (frame.ops[i].op = "device" /\ frame.ops[j].op = "stroke") => j < i

\* A pass with at least two strokes and two devices.
C6_Witness == Len(StrokeOps) >= 2 /\ Len(DeviceOps) >= 2

\* ------------------------------------------------ interaction properties
\* zoomScale in hundredths: 0.1 is 10, 10 is 1000 and the step 0.05 is 5.
Hundredths(s) == s * (100 \div ScaleDen)

ScaleInRange == Hundredths(scale) >= 10 /\ Hundredths(scale) <= 1000

\* C7: zoomScale stays within [0.1, 10], and a wheel event whose step would
\* leave the range ends exactly on the bound.
C7_ZoomClamped ==
    /\ []ScaleInRange
    /\ [][\A deltaY \in DeltaYs :
            handleWheel(deltaY) =>
                LET step == IF deltaY > 0 THEN -5 ELSE 5
                IN  /\ Hundredths(scale) + step < 10 => Hundredths(scale') = 10
                    /\ Hundredths(scale) + step > 1000 => Hundredths(scale') = 1000
         ]_vars

\* zoomScale is at a bound of the range.
C7_Witness == Hundredths(scale) = 1000 \/ Hundredths(scale) = 10

\* C8: a wheel event moves zoomScale by one step of 0.05, down for deltaY > 0
\* and up for deltaY < 0, unless the step would leave [0.1, 10].
C8_WheelStep ==
    [][\A deltaY \in DeltaYs :
          handleWheel(deltaY) =>
              LET before == Hundredths(scale)
                  after == Hundredths(scale')
              IN  /\ (deltaY > 0 /\ before - 5 >= 10) => after = before - 5
                  /\ (deltaY < 0 /\ before + 5 <= 1000) => after = before + 5
                  /\ \/ after = before - 5
                     \/ after = before + 5
                     \/ after = before /\ before \in {10, 1000}
      ]_vars

\* zoomScale is one step off the initial zoom.
C8_Witness == Hundredths(scale) = 105 \/ Hundredths(scale) = 95

\* C9: pan is the pan at the latest press plus the pointer displacement since
\* that press.  Every drag starts from the pan the previous one left, so the
\* pan after several drags is the sum of their displacements.
C9_PanFollowsPointer ==
    /\ pan.x = pressPan.x + (lastPos.x - pressPos.x)
    /\ pan.y = pressPan.y + (lastPos.y - pressPos.y)

\* A second drag, begun with a pan other than 0 at a pointer position other
\* than the origin, has moved the pointer.
C9_Witness ==
    /\ isDragging
    /\ pressPan # Point(0, 0)
    /\ pressPos # Point(0, 0)
    /\ lastPos # pressPos
    /\ pan # pressPan

\* C10: a release or a leave ends the drag, and while no drag is on only a
\* press starts one and a move leaves pan unchanged.
C10_ReleaseEndsDrag ==
    [][/\ (onMouseUp \/ onMouseLeave) => ~isDragging'
       /\ (~isDragging /\ ~(\E p \in Pointers : handleMouseDown(p)))
             => ~isDragging'
       /\ (~isDragging /\ (\E p \in Pointers : handleMouseMove(p)))
             => pan' = pan]_vars

\* After a drag that moved the pan, no drag is on.
C10_Witness == ~isDragging /\ pan # Point(0, 0) /\ lastPos # pressPos

\* ---------------------------------------------------------------------------
\* C11: each rotate action sets the rotation to (previous + 90) mod 360, so
\* 270 wraps to 0 and four rotate actions in a row restore the quadrant; in
\* every reachable state the rotation is one of 0, 90, 180, 270.
Quadrants == {0, 90, 180, 270}

QuadrantAfter(q) ==
    CASE q = 0 -> 90 [] q = 90 -> 180 [] q = 180 -> 270 [] q = 270 -> 0

C11_RotationCycle ==
    /\ [](/\ rotation \in Quadrants
          /\ NextRotation(NextRotation(NextRotation(NextRotation(rotation))))
                = rotation)
    /\ [][handleRotate => rotation' = QuadrantAfter(rotation)]_vars

C11_Witness == rotation = 270 /\ NextRotation(rotation) = 0

C13_CallerInformed ==
    /\ [](parentScaleFactor = globalScaleFactor)
    /\ [][globalScaleFactor' # globalScaleFactor =>
            /\ ScaleFactorEffect(TRUE, globalScaleFactor, globalScaleFactor')
                  = <<globalScaleFactor'>>
            /\ parentScaleFactor' = globalScaleFactor'
            /\ parentScaleFactor' # parentScaleFactor]_vars

C13_Witness ==
    /\ globalScaleFactor = SliderMax
    /\ parentScaleFactor = SliderMax
    /\ parentScaleFactor # InitialScaleFactor

\* ---------------------------------------------------------------------------
\* C14: every change of the zoom, the pan, the rotation, the global scale
\* factor or of the circuit graph is followed, before the next event, by a
\* render pass that uses the new values of all five: the latest pass is the
\* pass of the new state, its devices and wire ends are at the quadrant
\* formula of the new view, and with a graph to draw the bitmap is painted.
FrameCurrent ==
    frame = DrawOnCanvas(canvasRef, circuitData, canvasSize, View)

ViewChanged ==
    \/ scale' # scale
    \/ pan' # pan
    \/ rotation' # rotation
    \/ globalScaleFactor' # globalScaleFactor
    \/ \E g \in EditGraphs : SetCircuitData(g)

ViewAfter ==
    [scale |-> scale', pan |-> pan', rotation |-> rotation',
     globalScaleFactor |-> globalScaleFactor']

\* Every device and every wire end among ops is at the quadrant formula of
\* the view v on a canvas of the given size.
PlacedBy(ops, cd, size, v) ==
    LET devs == SelectSeq(ops, LAMBDA o : o.op = "device")
        strokes == SelectSeq(ops, LAMBDA o : o.op = "stroke")
        g == v.globalScaleFactor \div GsfUnit
        k == BaseScale(size) * v.scale
    IN  /\ Len(devs) = Len(cd.devices)
        /\ Len(strokes) <= Len(cd.wires)
        /\ \A i \in 1..Len(devs) :
              LET d == cd.devices[i]
              IN  devs[i].at =
                     QuadrantPoint(v.rotation, d.position.x * g,
                                   d.position.z * g,
                                   k * ScaleFactorOf(d.position), v.pan)
        /\ \A j \in 1..Len(strokes) :
              /\ strokes[j].from =
                    QuadrantPoint(v.rotation, strokes[j].startPos.x * g,
                                  strokes[j].startPos.z * g, k, v.pan)
              /\ strokes[j].to =
                    QuadrantPoint(v.rotation, strokes[j].endPos.x * g,
                                  strokes[j].endPos.z * g, k, v.pan)

NewBaseScale(size) ==
    IF size.width <= size.height THEN size.width * MarginNum
    ELSE size.height * MarginNum

DevicesAtBaseScale(baseScale) ==
    /\ Len(DeviceOps) = Len(circuitData.devices)
    /\ \A i \in 1..Len(circuitData.devices) :
          LET d == circuitData.devices[i]
          IN  DeviceOps[i].at =
                 QuadrantPoint(rotation, Scaled(d.position.x),
                               Scaled(d.position.z),
                               baseScale * scale * ScaleFactorOf(d.position),
                               pan)

C15_ResizeIsDrawn ==
    [][\A size \in ResizeSizes :
          (initializeCanvas(size) /\ canvasRef = "ok" /\ ~IsNull(circuitData))
          => /\ canvasSize' = size
             /\ surface' = "painted"
             /\ frame'.ops[1] = ClearRect(size)
             /\ DevicesAtBaseScale(NewBaseScale(size))'
       ]_vars

\* A graph drawn on a resized canvas that is narrower than it is high.
C15_Witness ==
    /\ ~IsNull(circuitData)
    /\ canvasRef = "ok"
    /\ canvasSize.width = 500 /\ canvasSize.height = 700
    /\ surface = "painted"
    /\ frame.ops[1] = ClearRect(canvasSize)
    /\ DevicesAtBaseScale(500 * MarginNum)

\* ---------------------------------------------------------------------------
\* C16: if the canvas element, its 2D context or the circuit graph is missing,
\* the render pass is a silent no-op: it issues no drawing operation, not even
\* the clear or the checkerboard, raises no error and leaves the bitmap as it
\* was.
NothingToDrawOn == canvasRef # "ok" \/ IsNull(circuitData)

C16_MissingIsNoOp ==
    /\ [](NothingToDrawOn => /\ frame.ops = <<>>
                              /\ ~frame.fault)
    /\ [][(NothingToDrawOn' /\ \A size \in ResizeSizes : ~initializeCanvas(size))
             => surface' = surface]_vars

\* A graph was handed to a canvas without a 2D context and the view was
\* rotated: nothing was ever painted.
C16_Witness ==
    /\ canvasRef = "no2d"
    /\ ~IsNull(circuitData)
    /\ rotation = 90
    /\ frame = NoPass
    /\ surface = "blank"

\* ---------------------------------------------------------------------------
\* C17: every device is drawn; its colour pair and the glyph of its label are
\* those of its lower-cased type when that is one of the known types, and the
\* default pair and the default glyph otherwise.
KnownTypes ==
    {Str_resistor, Str_capacitor, Str_inductor, Str_voltage_source,
     Str_current_source, Str_ground, Str_junction}
DefaultColors == [fill |-> "#ffffff", stroke |-> "#d1d1d6"]
DefaultEmoji == "U+26A1"

Opposite(q) == (q + 180) % 360
Negated(p) == Point(0 - p.x, 0 - p.y)

C18_HalfTurnNegates ==
    (pan = Point(0, 0) /\ ~IsNull(circuitData)) =>
        LET other == Draw(circuitData, canvasSize,
                          [View EXCEPT !.rotation = Opposite(rotation)])
        IN  /\ Len(other.ops) = Len(frame.ops)
            /\ \A i \in 1..Len(frame.ops) :
                  /\ other.ops[i].op = frame.ops[i].op
                  /\ frame.ops[i].op = "device" =>
                        other.ops[i].at = Negated(frame.ops[i].at)
                  /\ frame.ops[i].op = "stroke" =>
                        /\ other.ops[i].from = Negated(frame.ops[i].from)
                        /\ other.ops[i].to = Negated(frame.ops[i].to)

\* An unpanned pass in quadrant 90 with a device and a wire end off both axes.
C18_Witness ==
    /\ pan = Point(0, 0)
    /\ rotation = 90
    /\ \E i, j \in 1..Len(frame.ops) :
          /\ frame.ops[i].op = "device"
          /\ frame.ops[i].at.x # 0 /\ frame.ops[i].at.y # 0
          /\ frame.ops[j].op = "stroke"
          /\ frame.ops[j].from.x # 0 /\ frame.ops[j].from.y # 0

\* ---------------------------------------------------------------------------
\* C19: for a device away from the world origin, with the quadrant, the pan,
\* the base scale and both scale factors fixed, a larger zoom gives a strictly
\* larger magnitude of the screen offset (screen point minus pan).  The
\* offset is compared by coordinate: neither coordinate shrinks in absolute
\* value and one grows, which makes the Euclidean length strictly larger.
Abs(a) == IF a < 0 THEN 0 - a ELSE a
OffsetFromPan(p) == Point(p.x - pan.x * ScreenDen, p.y - pan.y * ScreenDen)
StrictlyLonger(a, b) ==
    /\ Abs(a.x) >= Abs(b.x)
    /\ Abs(a.y) >= Abs(b.y)
    /\ Abs(a.x) > Abs(b.x) \/ Abs(a.y) > Abs(b.y)

OtherZooms == RenderScales \cup {Min(scale + zoomFactor, MaxScale)}

C19_ZoomMonotone ==
    ~IsNull(circuitData) =>
        \A i \in 1..Len(circuitData.devices) :
            LET d == circuitData.devices[i]
                here == OffsetFromPan(DeviceOps[i].at)
            IN  (d.position.x # 0 \/ d.position.z # 0) =>
                    \A s \in OtherZooms :
                        LET there == OffsetFromPan(
                                DeviceScreen(d, BaseScale(canvasSize),
                                             [View EXCEPT !.scale = s]))
                        IN  /\ s > scale => StrictlyLonger(there, here)
                            /\ s < scale => StrictlyLonger(here, there)

\* A panned pass at the smallest zoom, in quadrant 270, of a device off both
\* axes with a local scale factor of 2.
C19_Witness ==
    /\ ~IsNull(circuitData)
    /\ scale = MinScale
    /\ rotation = 270
    /\ pan # Point(0, 0)
    /\ \E i \in 1..Len(circuitData.devices) :
          LET d == circuitData.devices[i]
          IN  /\ d.position.x # 0 /\ d.position.z # 0
              /\ ScaleFactorOf(d.position) = 2
              /\ DeviceOps[i].deviceId = d.deviceId
              /\ OffsetFromPan(DeviceOps[i].at).x # 0

\* ---------------------------------------------------------------------------
\* C20: in every reachable state of the page the circuit graph handed to the
\* canvas is null or has both a devices list and a wires list: a graph that
\* lacks either is rejected on the upload path and on the JSON-editor path.
C20_GraphValidated ==
    \/ IsNull(circuitData)
    \/ /\ "devices" \in DOMAIN circuitData
       /\ "wires" \in DOMAIN circuitData

\* ---------------------------------------------------------------------------
\* C21: for every circuit graph that has a devices list and a wires list the
\* render pass raises no error: a faulty or incomplete entity degrades only
\* its own drawing and the pass runs to its end.
C21_NoRenderError ==
    (/\ ~IsNull(circuitData)
     /\ "devices" \in DOMAIN circuitData
     /\ "wires" \in DOMAIN circuitData)
    => /\ ~frame.fault
       /\ \A i \in 1..Len(circuitData.devices) :
             "position" \in DOMAIN circuitData.devices[i] =>
                \E j \in 1..Len(frame.ops) :
                    /\ frame.ops[j].op = "device"
                    /\ frame.ops[j].deviceId = circuitData.devices[i].deviceId

\* ---------------------------------------------------------------------------
\* The device an endpoint node id takes its position from: the last junction
\* listing it, and without one the first device listing it.
AnchorOf(nodeId) ==
    LET junctions == JunctionsListing(circuitData.devices, nodeId)
    IN  IF junctions # {}
        THEN CHOOSE i \in junctions : \A j \in junctions : j <= i
        ELSE FirstListing(nodeId)
GlyphAt(d, point) == \E g \in GlyphsOf(d) : frame.ops[g].at = point

\* C22: each end of a stroked wire is at the screen point where the device
\* that gave the end its position is drawn, in every view state.
C22_EndsUnderGlyphs ==
    \A j \in 1..Len(StrokeOps) :
        LET o == StrokeOps[j]
            w == WireOf(o)
        IN  /\ GlyphAt(circuitData.devices[AnchorOf(w.nodes[1])], o.from)
            /\ GlyphAt(circuitData.devices[AnchorOf(w.nodes[2])], o.to)

\* ---------------------------------------------------------------------------
\* C23: each interaction changes only its own transform parameter: a wheel
\* event leaves pan, rotation and globalScaleFactor alone; a press, move or
\* release leaves scale, rotation and globalScaleFactor alone; a rotate leaves
\* scale, pan and globalScaleFactor alone; a slider change leaves scale, pan
\* and rotation alone; a new graph or a resize leaves all four alone.
C23_OwnParameterOnly ==
    [][/\ (\E deltaY \in DeltaYs : handleWheel(deltaY))
            => UNCHANGED <<pan, rotation, globalScaleFactor>>
       /\ (\/ \E p \in Pointers : handleMouseDown(p)
           \/ \E p \in Pointers : handleMouseMove(p)
           \/ onMouseUp
           \/ onMouseLeave)
            => UNCHANGED <<scale, rotation, globalScaleFactor>>
       /\ handleRotate => UNCHANGED <<scale, pan, globalScaleFactor>>
       /\ (\E value \in SliderValues : onValueChange(value))
            => UNCHANGED <<scale, pan, rotation>>
       /\ (\/ \E g \in EditGraphs : SetCircuitData(g)
           \/ \E size \in ResizeSizes : initializeCanvas(size))
            => UNCHANGED <<scale, pan, rotation, globalScaleFactor>>]_vars

\* Every interaction has acted: the view differs from the initial one in all
\* four parameters, on a resized canvas that shows a graph.
C23_Witness ==
    /\ scale # InitScale
    /\ pan # Point(0, 0)
    /\ rotation # 0
    /\ globalScaleFactor # InitialScaleFactor
    /\ canvasSize # [width |-> InitWidth, height |-> InitHeight]
    /\ ~IsNull(circuitData)
    /\ ~isDragging

\* ---------------------------------------------------------------------------
\* C24: a non-junction device's box is drawn rotated by the device's rotation
\* about the device's screen point and its label with net rotation 0 about
\* the same point; a junction is a circle without label; after each device
\* the context's transform is the one before it, so nothing carries over.
C24_BoxTurnsLabelLevel ==
    ~IsNull(circuitData) =>
        \A i \in 1..Len(circuitData.devices) :
            LET d == circuitData.devices[i]
            IN  \A g \in GlyphsOf(d) :
                    LET o == frame.ops[g]
                    IN  /\ o.glyphCtx = [origin |-> o.at, angle |-> d.rotation]
                        /\ o.ctxAfter = IdentityCtx
                        /\ IF d.deviceType \in JunctionSpellings
                           THEN /\ o.shape = "circle"
                                /\ o.label = <<>>
                                /\ o.textCtx = <<>>
                           ELSE /\ o.shape = "box"
                                /\ Len(o.label) = 1
                                /\ o.textCtx = <<[origin |-> o.at, angle |-> 0]>>

\* A box turned by 90 degrees away from the pan origin is followed in the
\* same pass by another device, and a junction with a rotation is drawn.
C24_Witness ==
    /\ ~IsNull(circuitData)
    /\ \E g, h \in 1..Len(frame.ops) :
          /\ g < h
          /\ frame.ops[g].op = "device" /\ frame.ops[h].op = "device"
          /\ frame.ops[g].shape = "box"
          /\ frame.ops[g].glyphCtx.angle = 90
          /\ OffsetFromPan(frame.ops[g].at) # Point(0, 0)
    /\ \E g \in 1..Len(frame.ops) :
          /\ frame.ops[g].op = "device"
          /\ frame.ops[g].shape = "circle"
          /\ frame.ops[g].glyphCtx.angle = 180

\* ---------------------------------------------------------------------------
\* C25: when several junctions list a node id the mapping holds the position
\* of the last of them in list order, while a wire end on a node id is
\* accepted by the first device in list order that lists it: the end is
\* stroked whatever that first device is, at the last junction's position,
\* and at the first device's position when no junction lists the node id.
C25_LastJunctionFirstDevice ==
    ~IsNull(circuitData) =>
        LET devices == circuitData.devices
            np == frame.nodePositions
            LastJunction(nodeId) ==
                CHOOSE i \in JunctionsListing(devices, nodeId) :
                    \A j \in JunctionsListing(devices, nodeId) : j <= i
            PositionFor(nodeId) ==
                IF JunctionsListing(devices, nodeId) # {}
                THEN devices[LastJunction(nodeId)].position
                ELSE devices[Find(devices, nodeId)].position
        IN  /\ \A nodeId \in DOMAIN np :
                  np[nodeId] = devices[LastJunction(nodeId)].position
            /\ \A i \in 1..Len(circuitData.wires) :
                  LET w == circuitData.wires[i]
                  IN  IF Len(w.nodes) >= 2 /\ Find(devices, w.nodes[1]) # 0
                         /\ Find(devices, w.nodes[2]) # 0
                      THEN \E j \in StrokesOf(w) :
                              /\ frame.ops[j].startPos = PositionFor(w.nodes[1])
                              /\ frame.ops[j].endPos = PositionFor(w.nodes[2])
                      ELSE StrokesOf(w) = {}

\* A stroked wire ends on a node id that a non-junction lists first and that
\* two junctions at different positions list after it.
C25_Witness ==
    /\ ~IsNull(circuitData)
    /\ \E j \in 1..Len(frame.ops) :
          /\ frame.ops[j].op = "stroke"
          /\ \E k \in 1..2 :
                LET nodeId == WireOf(frame.ops[j]).nodes[k]
                    junctions == JunctionsListing(circuitData.devices, nodeId)
                IN  /\ \E a, b \in junctions :
                          /\ a < b
                          /\ circuitData.devices[a].position
                                # circuitData.devices[b].position
                    /\ FirstListing(nodeId) \notin junctions

\* ---------------------------------------------------------------------------
\* C26: the local scale factor of a device is position.scaleFactor when that
\* is a non-zero number and 1 when it is absent or 0, so a device with a
\* scaleFactor of 0 away from the origin is not drawn on the pan origin.
C26_LocalScaleDefault ==
    ~IsNull(circuitData) =>
        \A i \in 1..Len(circuitData.devices) :
            LET d == circuitData.devices[i]
                localScale == IF "scaleFactor" \notin DOMAIN d.position THEN 1
                              ELSE IF d.position.scaleFactor = 0 THEN 1
                              ELSE d.position.scaleFactor
                k == BaseScale(canvasSize) * scale * localScale
            IN  \A g \in GlyphsOf(d) :
                    /\ frame.ops[g].at =
                          QuadrantPoint(rotation, Scaled(d.position.x),
                                        Scaled(d.position.z), k, pan)
                    /\ (d.position.x # 0 \/ d.position.z # 0)
                          => OffsetFromPan(frame.ops[g].at) # Point(0, 0)

\* The pass draws a device whose scaleFactor is 0, one whose scaleFactor is 2
\* and one without scaleFactor, all away from the origin.
C26_Witness ==
    /\ ~IsNull(circuitData)
    /\ \E a, b, c \in 1..Len(circuitData.devices) :
          LET pa == circuitData.devices[a].position
              pb == circuitData.devices[b].position
              pc == circuitData.devices[c].position
          IN  /\ "scaleFactor" \in DOMAIN pa /\ pa.scaleFactor = 0
              /\ "scaleFactor" \in DOMAIN pb /\ pb.scaleFactor = 2
              /\ "scaleFactor" \notin DOMAIN pc
              /\ \A q \in {pa, pb, pc} : q.x # 0 \/ q.z # 0
              /\ \A e \in {a, b, c} : GlyphsOf(circuitData.devices[e]) # {}

C28_LoadingAndLastUpload ==
    /\ page.uploads # <<>> => page.isLoading
    /\ page.uploads = <<>> => ~page.isLoading
    /\ (/\ page.uploads = <<>>
        /\ page.lastStarted # NoString
        /\ AnalyzeCircuit(page.lastStarted).ok
        /\ HasBothLists(AnalyzeCircuit(page.lastStarted).data))
       => circuitData = AnalyzeCircuit(page.lastStarted).data

\* ---------------------------------------------------------------------------
\* The analysis of a file brings a payload the handler accepts.
AnalysisValid(file) ==
    AnalyzeCircuit(file).ok /\ HasBothLists(AnalyzeCircuit(file).data)

\* C29: in the handler with detection steps, a failed analysis request or an
\* invalid analysis payload sets the error and resets circuitData and
\* detectionSteps to null; a failed detection-steps request sets the error
\* and leaves circuitData and originalImage as the analysis stored them; in
\* every case isLoading is false when the handler finishes.
C29_FailureHandling ==
    [][\A i \in 1..Len(page.uploads) :
          /\ (AnalysisSettles(i, TRUE) /\ ~AnalysisValid(page.uploads[i].file))
                => /\ page'.error # NoString
                   /\ circuitData' = Null
                   /\ page'.detectionSteps = Null
                   /\ ~page'.isLoading
          /\ \A d \in DetectResponses :
                DetectSettles(i, d)
                   => /\ ~page'.isLoading
                      /\ ~(d.ok /\ HasSteps(d.data))
                            => /\ page'.error # NoString
                               /\ circuitData' = circuitData
                               /\ page'.originalImage = page.originalImage]_vars

\* An upload has finished whose analysis brought a graph and whose detection
\* steps failed: the graph and the image are shown with the error, no steps.
C29_Witness ==
    /\ page.uploads = <<>>
    /\ ~page.isLoading
    /\ page.error = DetectError([ok |-> FALSE, data |-> Null])
    /\ circuitData = SharedNodeGraph
    /\ page.originalImage = ObjectURL("shared.png")
    /\ page.detectionSteps = Null

====
